---- MODULE Spec2Model ----
(***************************************************************************)
(* Indoor3DMeanAP (mmeval/metrics/indoor3d_map.py): ingestion of sample    *)
(* pairs, per-class grouping, confidence-ranked greedy matching for        *)
(* several IoU thresholds at once, precision/recall curves and their       *)
(* integration into an average precision.                                  *)
(*                                                                         *)
(* Conventions.  Python lists and arrays are sequences indexed from 1;     *)
(* sample ids and threshold indices are therefore 1-based.  An IoU and a   *)
(* threshold are integers in hundredths (25 is 0.25).  A floating point    *)
(* value is an exact fraction [n, d] in lowest terms; d = 0 encodes the    *)
(* IEEE specials: 0/0 is NaN and 1/0, -1/0 are the infinities.  Rounding   *)
(* is not modelled.                                                        *)
(***************************************************************************)
EXTENDS Integers, Sequences, FiniteSets, TLC

\* ------------------------------------------------------------------------
\* Bounds of the model
\* ------------------------------------------------------------------------
MaxSamples == 2
MaxGt == 2
MaxDet == 3
MaxCurves == 2
MaxPoints == 2
MaxBoxes == 1
MaxBatch == 2
MaxResults == 2

Scores == {1, 2}
IoULevels == {0, 50, 75}
IouThrLists == {<<25, 50>>, <<50, 25>>}

\* ------------------------------------------------------------------------
\* Floating point values as fractions
\* ------------------------------------------------------------------------
Abs(x) == IF x < 0 THEN -x ELSE x

Sgn(x) == IF x < 0 THEN -1 ELSE IF x > 0 THEN 1 ELSE 0

RECURSIVE GCD(_, _)
GCD(a, b) == IF b = 0 THEN a ELSE GCD(b, a % b)

Norm(n, d) ==
    IF d = 0 THEN [n |-> Sgn(n), d |-> 0]
    ELSE LET g == GCD(Abs(n), Abs(d))
         IN  [n |-> (Sgn(d) * n) \div g, d |-> Abs(d) \div g]

Flt(k) == [n |-> k, d |-> 1]
NaN == [n |-> 0, d |-> 0]
IsNaN(x) == x.d = 0 /\ x.n = 0
IsFinite(x) == x.d > 0

FAdd(a, b) ==
    IF a.d = 0 /\ b.d = 0 THEN (IF a.n = b.n THEN a ELSE NaN)
    ELSE IF a.d = 0 THEN a
    ELSE IF b.d = 0 THEN b
    ELSE Norm(a.n * b.d + b.n * a.d, a.d * b.d)

FNeg(a) == [n |-> -a.n, d |-> a.d]
FSub(a, b) == FAdd(a, FNeg(b))
FMul(a, b) == Norm(a.n * b.n, a.d * b.d)
\* 1/b: 1/0 is +inf, 1/inf is 0, 1/NaN is NaN
FRecip(b) == IF b.n = 0 THEN Norm(b.d, 0) ELSE Norm(b.d * Sgn(b.n), Abs(b.n))
FDiv(a, b) == FMul(a, FRecip(b))

FLt(a, b) ==
    /\ ~IsNaN(a)
    /\ ~IsNaN(b)
    /\ IF a.d = 0 /\ b.d = 0 THEN a.n < b.n ELSE a.n * b.d < b.n * a.d
FLe(a, b) == ~IsNaN(a) /\ ~IsNaN(b) /\ ~FLt(b, a)
FNe(a, b) == IsNaN(a) \/ IsNaN(b) \/ a # b
FMax(a, b) == IF IsNaN(a) THEN a ELSE IF IsNaN(b) THEN b ELSE IF FLt(a, b) THEN b ELSE a

RECURSIVE FSum(_)
FSum(s) == IF s = <<>> THEN Flt(0) ELSE FAdd(FSum(SubSeq(s, 1, Len(s) - 1)), s[Len(s)])

\* np.mean: the sum divided by the number of elements (0/0 for an empty list)
FMean(s) == FDiv(FSum(s), Flt(Len(s)))

\* ------------------------------------------------------------------------
\* Sequence helpers
\* ------------------------------------------------------------------------
\* the sequence <<F(1), ..., F(n)>>, built element by element
RECURSIVE SeqOf(_, _)
SeqOf(F(_), n) == IF n = 0 THEN <<>> ELSE Append(SeqOf(F, n - 1), F(n))

RECURSIVE Concat(_)
Concat(ss) == IF ss = <<>> THEN <<>> ELSE Concat(SubSeq(ss, 1, Len(ss) - 1)) \o ss[Len(ss)]

RECURSIVE SumNat(_)
SumNat(s) == IF s = <<>> THEN 0 ELSE SumNat(SubSeq(s, 1, Len(s) - 1)) + s[Len(s)]

\* np.cumsum
CumSum(s) == SeqOf(LAMBDA k : SumNat(SubSeq(s, 1, k)), Len(s))

Zeros(n) == SeqOf(LAMBDA k : 0, n)

\* ------------------------------------------------------------------------
\* average_precision
\* ------------------------------------------------------------------------
\* for i in range(mpre.shape[1] - 1, 0, -1): mpre[i-1] = max(mpre[i-1], mpre[i])
RECURSIVE Envelope(_, _)
Envelope(mpre, i) ==
    IF i < 2 THEN mpre
    ELSE Envelope([mpre EXCEPT ![i - 1] = FMax(mpre[i - 1], mpre[i])], i - 1)

\* np.sum((mrec[ind + 1] - mrec[ind]) * mpre[ind + 1]) over the places ind
\* where mrec changes, taken among the first k places
RECURSIVE SumArea(_, _, _)
SumArea(mrec, mpre, k) ==
    IF k = 0 THEN Flt(0)
    ELSE IF FNe(mrec[k + 1], mrec[k])
         THEN FAdd(SumArea(mrec, mpre, k - 1),
                   FMul(FSub(mrec[k + 1], mrec[k]), mpre[k + 1]))
         ELSE SumArea(mrec, mpre, k - 1)

AreaAP(recalls, precisions) ==
    LET mrec == <<Flt(0)>> \o recalls \o <<Flt(1)>>
        mpre0 == <<Flt(0)>> \o precisions \o <<Flt(0)>>
        mpre == Envelope(mpre0, Len(mpre0))
    IN  SumArea(mrec, mpre, Len(mrec) - 1)

\* np.arange(0, 1 + 1e-3, 0.1): the recall levels 0.0, 0.1, ..., 1.0
RecallLevels == SeqOf(LAMBDA k : Norm(k - 1, 10), 11)

\* precs = precisions[i, recalls[i, :] >= thr]; precs.max() if precs.size > 0 else 0
RECURSIVE MaxPrecAt(_, _, _, _)
MaxPrecAt(recalls, precisions, thr, k) ==
    IF k = 0 THEN [size |-> 0, max |-> Flt(0)]
    ELSE LET r == MaxPrecAt(recalls, precisions, thr, k - 1)
         IN  IF FLe(thr, recalls[k])
             THEN [size |-> r.size + 1,
                   max |-> IF r.size = 0 THEN precisions[k] ELSE FMax(r.max, precisions[k])]
             ELSE r

\* the inner loop of the 11-point mode: ap[i] += prec for the first k levels
RECURSIVE AddLevels(_, _, _, _)
AddLevels(acc, recalls, precisions, k) ==
    IF k = 0 THEN acc
    ELSE FAdd(AddLevels(acc, recalls, precisions, k - 1),
              MaxPrecAt(recalls, precisions, RecallLevels[k], Len(recalls)).max)

\* what the statement "ap /= 11" does to the array ap after curve i is summed
DivideAfterCurve(ap, i) == SeqOf(LAMBDA k : FDiv(ap[k], Flt(11)), Len(ap))

\* the outer loop of the 11-point mode over the first i curves
RECURSIVE ElevenPointLoop(_, _, _)
ElevenPointLoop(recalls, precisions, i) ==
    IF i = 0 THEN SeqOf(LAMBDA k : Flt(0), Len(recalls))
    ELSE LET ap == ElevenPointLoop(recalls, precisions, i - 1)
             summed == [ap EXCEPT ![i] = AddLevels(ap[i], recalls[i], precisions[i], 11)]
         IN  DivideAfterCurve(summed, i)

\* average_precision on a batch of curves (a one-dimensional input is the
\* batch of one curve); an unrecognized mode raises ValueError
average_precision(recalls, precisions, mode) ==
    IF mode = "area"
    THEN SeqOf(LAMBDA i : AreaAP(recalls[i], precisions[i]), Len(recalls))
    ELSE IF mode = "11points"
    THEN ElevenPointLoop(recalls, precisions, Len(recalls))
    ELSE "ValueError"

\* ------------------------------------------------------------------------
\* _eval_map_recall_single: the state of one call
\* ------------------------------------------------------------------------
VARIABLES
    gt,           \* sample id -> the number of ground-truth boxes of the class
    pred,         \* sample id -> the scores of the sample's predictions, in order
    overlaps,     \* sample id -> the IoU matrix pred_cur.overlaps returns (a row per prediction)
    iou_thr,      \* the list of IoU thresholds
    pc,           \* the position of the call
    class_recs,   \* sample id -> [bbox: the number of boxes, det: the claim table per threshold]
    npos,
    sample_ids,   \* per detection: its sample id (sorted once pc passes "sort")
    confidence,   \* per detection: its score, in flattening order
    ious,         \* per detection: its IoU row (sorted once pc passes "sort")
    sorted_ind,   \* the permutation np.argsort returned
    tp_thr,
    fp_thr,
    i,            \* the rank the matching loop is at
    jmax,         \* the loop's variable jmax, kept from one detection to the next (0: unbound)
    ret,          \* per threshold: [recall, precision, ap]
    single        \* per threshold t: the frame of the call with the threshold list [t]

matcher_vars == <<gt, pred, overlaps, iou_thr, pc, class_recs, npos, sample_ids,
                  confidence, ious, sorted_ind, tp_thr, fp_thr, i, jmax, ret, single>>

\* average_precision called on a batch of curves
VARIABLES
    recalls,      \* the batch: a recall sequence per curve
    precisions,   \* the batch: a precision sequence per curve
    mode,
    ap_pc,        \* "idle", "called" or "returned"
    ap_out        \* the array returned, or the error raised

ap_vars == <<recalls, precisions, mode, ap_pc, ap_out>>

\* add and compute_metric
VARIABLES
    results,          \* self._results: the stored (prediction, groundtruth) pairs
    last_call,        \* the last call of add or compute_metric and what it raised
    m_pc,             \* "idle" (pairs are added), "eval" (a compute_metric call is
                      \* evaluating classes), "computed" (the first call returned), "done"
    call_no,          \* the number of compute_metric calls started
    cm_results,       \* the argument of the compute_metric call in progress
    preds_per_class,  \* class -> sample id -> the (bbox, score) of its predictions
    gts_per_class,    \* class -> sample id -> its ground-truth boxes
    todo,             \* the classes eval_map_recall has still to evaluate
    ret_values,       \* class -> what _eval_map_recall_single returned
    argsort_memo,     \* the permutation np.argsort gave for each score array so far
    eval_results,     \* what the first compute_metric call returned
    eval_again        \* what the call on the same pairs in another order returned

metric_vars == <<results, last_call, m_pc, call_no, cm_results, preds_per_class,
                 gts_per_class, todo, ret_values, argsort_memo, eval_results, eval_again>>

\* iou_max = -np.inf: below every IoU and every threshold
NegInf == -1

\* lines 239-252: the claim tables, one list per threshold and sample
BuildClassRecs(gtmap, thr) ==
    SeqOf(LAMBDA s : [bbox |-> gtmap[s],
                      det |-> SeqOf(LAMBDA k : SeqOf(LAMBDA j : FALSE, gtmap[s]),
                                    Len(thr))],
          Len(gtmap))

CountPos(gtmap) == SumNat(gtmap)

\* lines 254-277: the flattened detections, sample after sample; a sample
\* with no prediction is skipped; a sample with no ground truth gives
\* each of its detections the row np.zeros(1)
FlatSampleIds(predmap) ==
    Concat(SeqOf(LAMBDA s : SeqOf(LAMBDA k : s, Len(predmap[s])), Len(predmap)))

FlatConfidence(predmap) == Concat(predmap)

FlatIous(predmap, recs, ov) ==
    Concat(SeqOf(LAMBDA s : SeqOf(LAMBDA k : IF recs[s].bbox > 0 THEN ov[s][k] ELSE <<0>>,
                                  Len(predmap[s])),
                 Len(predmap)))

\* line 282: np.argsort(-confidence) with the default kind, which is not a
\* stable sort: any permutation that puts the scores in descending order
ArgsortDescending(conf) ==
    {p \in [1..Len(conf) -> 1..Len(conf)] :
        /\ \A a, b \in 1..Len(conf) : a # b => p[a] # p[b]
        /\ \A a \in 1..Len(conf) - 1 : conf[p[a]] >= conf[p[a + 1]]}

\* lines 297-302: the scan for the best overlap, from box j on
RECURSIVE ScanOverlaps(_, _, _, _, _)
ScanOverlaps(cur_iou, nbox, j, iou_max, jm) ==
    IF j > nbox THEN [iou_max |-> iou_max, jmax |-> jm]
    ELSE IF cur_iou[j] > iou_max
         THEN ScanOverlaps(cur_iou, nbox, j + 1, cur_iou[j], j)
         ELSE ScanOverlaps(cur_iou, nbox, j + 1, iou_max, jm)

\* lines 291-302
BestMatch(cur_iou, nbox, old_jmax) ==
    IF nbox > 0 THEN ScanOverlaps(cur_iou, nbox, 1, NegInf, old_jmax)
    ELSE [iou_max |-> NegInf, jmax |-> old_jmax]

\* the comparison of line 305 accepting an IoU equal to the threshold
ExceedsOrEqual(iou_max, thresh) == iou_max >= thresh

\* line 305
Exceeds(iou_max, thresh) == iou_max > thresh

\* the test of line 306 never finding a box claimed
NeverClaimed(det, iou_idx, jm) == FALSE

\* line 306: R['det'][iou_idx][jmax]
IsClaimed(det, iou_idx, jm) == det[iou_idx][jm]

\* the claim of line 308 written to the first threshold's table
ClaimBoxFirstTable(det, iou_idx, jm) == [det EXCEPT ![1][jm] = TRUE]

\* the claim of line 308 on tables that are one list shared by all thresholds
ClaimBoxAllTables(det, iou_idx, jm) ==
    SeqOf(LAMBDA k : [det[k] EXCEPT ![jm] = TRUE], Len(det))

\* line 308: R['det'][iou_idx][jmax] = 1
ClaimBox(det, iou_idx, jm) == [det EXCEPT ![iou_idx][jm] = TRUE]

\* lines 305-312 for one threshold, on a frame [recs, tp, fp, jmax]
MarkThreshold(fr, iou_idx, thresh, rank, sid, iou_max) ==
    IF Exceeds(iou_max, thresh)
    THEN IF ~IsClaimed(fr.recs[sid].det, iou_idx, fr.jmax)
         THEN [fr EXCEPT !.tp[iou_idx][rank] = 1,
                         !.recs[sid].det = ClaimBox(fr.recs[sid].det, iou_idx, fr.jmax)]
         ELSE [fr EXCEPT !.fp[iou_idx][rank] = 1]
    ELSE [fr EXCEPT !.fp[iou_idx][rank] = 1]

\* line 304: the thresholds in the order of the list, up to index iou_idx
RECURSIVE MarkThresholds(_, _, _, _, _, _)
MarkThresholds(fr, thr, iou_idx, rank, sid, iou_max) ==
    IF iou_idx = 0 THEN fr
    ELSE MarkThreshold(MarkThresholds(fr, thr, iou_idx - 1, rank, sid, iou_max),
                       iou_idx, thr[iou_idx], rank, sid, iou_max)

\* lines 290-312: the body of the matching loop for the detection at rank
MatchDetection(fr, thr, rank, sid, cur_iou) ==
    LET best == BestMatch(cur_iou, fr.recs[sid].bbox, fr.jmax)
    IN  MarkThresholds([fr EXCEPT !.jmax = best.jmax], thr, Len(thr), rank, sid,
                       best.iou_max)

\* lines 287-288 with the tables of lines 250-252: the frame the loop starts from
StartFrame(gtmap, thr, ndet) ==
    [recs |-> BuildClassRecs(gtmap, thr),
     tp |-> SeqOf(LAMBDA k : Zeros(ndet), Len(thr)),
     fp |-> SeqOf(LAMBDA k : Zeros(ndet), Len(thr)),
     jmax |-> 0]

\* lines 317-324 for one threshold
CurveOf(tpflags, fpflags, np) ==
    LET fp == CumSum(fpflags)
        tp == CumSum(tpflags)
        recall == SeqOf(LAMBDA k : FDiv(Flt(tp[k]), Flt(np)), Len(tp))
        \* tp / np.maximum(tp + fp, eps): tp + fp = 0 only where tp = 0
        precision == SeqOf(LAMBDA k : IF tp[k] + fp[k] = 0 THEN Flt(0)
                                      ELSE FDiv(Flt(tp[k]), Flt(tp[k] + fp[k])),
                           Len(tp))
    IN  [recall |-> recall, precision |-> precision,
         ap |-> average_precision(<<recall>>, <<precision>>, "area")[1]]

\* lines 314-326
Curves(tp, fp, thr, np) == SeqOf(LAMBDA k : CurveOf(tp[k], fp[k], np), Len(thr))

\* ------------------------------------------------------------------------
\* _eval_map_recall_single: the inputs and the steps of a call
\* ------------------------------------------------------------------------
\* One sample of a class: at most gbudget ground-truth boxes, the scores of
\* at most dbudget predictions and the IoU row of each
SampleInputs(gbudget, dbudget) ==
    UNION {UNION {{[ngt |-> g, scores |-> sc, rows |-> rw] :
                      sc \in [1..n -> Scores],
                      rw \in [1..n -> [1..g -> IoULevels]]} :
                  n \in 0..dbudget} :
           g \in 0..gbudget}

\* The samples of a class: ns samples holding at most MaxGt ground-truth
\* boxes and at most MaxDet predictions together
RECURSIVE ClassInputs(_)
ClassInputs(ns) ==
    IF ns = 0 THEN {<<>>}
    ELSE UNION {{Append(rest, x) :
                    x \in SampleInputs(
                        MaxGt - SumNat(SeqOf(LAMBDA s : rest[s].ngt, Len(rest))),
                        MaxDet - SumNat(SeqOf(LAMBDA s : Len(rest[s].scores), Len(rest))))} :
                rest \in ClassInputs(ns - 1)}

MatcherInit ==
    \E ns \in 1..MaxSamples, thr \in IouThrLists :
      \E inp \in ClassInputs(ns) :
        /\ gt = SeqOf(LAMBDA s : inp[s].ngt, ns)
        /\ pred = SeqOf(LAMBDA s : inp[s].scores, ns)
        /\ overlaps = SeqOf(LAMBDA s : inp[s].rows, ns)
        /\ iou_thr = thr
        /\ pc = "recs"
        /\ class_recs = <<>>
        /\ npos = 0
        /\ sample_ids = <<>>
        /\ confidence = <<>>
        /\ ious = <<>>
        /\ sorted_ind = <<>>
        /\ tp_thr = <<>>
        /\ fp_thr = <<>>
        /\ i = 0
        /\ jmax = 0
        /\ ret = <<>>
        /\ single = <<>>

\* lines 239-252
BuildRecs ==
    /\ pc = "recs"
    /\ class_recs' = BuildClassRecs(gt, iou_thr)
    /\ npos' = CountPos(gt)
    /\ pc' = "flatten"
    /\ UNCHANGED <<gt, pred, overlaps, iou_thr, sample_ids, confidence, ious,
                   sorted_ind, tp_thr, fp_thr, i, jmax, ret, single>>
    /\ UNCHANGED <<ap_vars, metric_vars>>

\* lines 254-277
Flatten ==
    /\ pc = "flatten"
    /\ sample_ids' = FlatSampleIds(pred)
    /\ confidence' = FlatConfidence(pred)
    /\ ious' = FlatIous(pred, class_recs, overlaps)
    /\ pc' = "sort"
    /\ UNCHANGED <<gt, pred, overlaps, iou_thr, class_recs, npos, sorted_ind,
                   tp_thr, fp_thr, i, jmax, ret, single>>
    /\ UNCHANGED <<ap_vars, metric_vars>>

\* lines 279-288; the calls with a single threshold rank the same scores
\* and start from tables of their own
SortByConfidence ==
    /\ pc = "sort"
    /\ \E p \in ArgsortDescending(confidence) :
        /\ sorted_ind' = p
        /\ sample_ids' = SeqOf(LAMBDA k : sample_ids[p[k]], Len(p))
        /\ ious' = SeqOf(LAMBDA k : ious[p[k]], Len(p))
    /\ tp_thr' = SeqOf(LAMBDA k : Zeros(Len(sample_ids)), Len(iou_thr))
    /\ fp_thr' = SeqOf(LAMBDA k : Zeros(Len(sample_ids)), Len(iou_thr))
    /\ single' = SeqOf(LAMBDA k : StartFrame(gt, <<iou_thr[k]>>, Len(sample_ids)),
                       Len(iou_thr))
    /\ i' = 1
    /\ pc' = "match"
    /\ UNCHANGED <<gt, pred, overlaps, iou_thr, class_recs, npos, confidence,
                   jmax, ret>>
    /\ UNCHANGED <<ap_vars, metric_vars>>

\* lines 289-312, one detection
MatchStep ==
    /\ pc = "match"
    /\ i <= Len(sample_ids)
    /\ LET fr == MatchDetection([recs |-> class_recs, tp |-> tp_thr, fp |-> fp_thr,
                                 jmax |-> jmax],
                                iou_thr, i, sample_ids[i], ious[i])
       IN  /\ class_recs' = fr.recs
           /\ tp_thr' = fr.tp
           /\ fp_thr' = fr.fp
           /\ jmax' = fr.jmax
    /\ single' = SeqOf(LAMBDA k : MatchDetection(single[k], <<iou_thr[k]>>, i,
                                                 sample_ids[i], ious[i]),
                       Len(iou_thr))
    /\ i' = i + 1
    /\ UNCHANGED <<gt, pred, overlaps, iou_thr, pc, npos, sample_ids, confidence,
                   ious, sorted_ind, ret>>
    /\ UNCHANGED <<ap_vars, metric_vars>>

\* lines 314-326
ComputeCurves ==
    /\ pc = "match"
    /\ i > Len(sample_ids)
    /\ ret' = Curves(tp_thr, fp_thr, iou_thr, npos)
    /\ pc' = "done"
    /\ UNCHANGED <<gt, pred, overlaps, iou_thr, class_recs, npos, sample_ids,
                   confidence, ious, sorted_ind, tp_thr, fp_thr, i, jmax, single>>
    /\ UNCHANGED <<ap_vars, metric_vars>>

\* ------------------------------------------------------------------------
\* average_precision called on a batch of curves
\* ------------------------------------------------------------------------
\* the values a point of a curve takes
CurveValues == {Flt(0), Norm(1, 2), Flt(1)}
Modes == {"area", "11points", "mean"}

ApIdle ==
    /\ recalls = <<>>
    /\ precisions = <<>>
    /\ mode = "area"
    /\ ap_pc = "idle"
    /\ ap_out = <<>>

\* a batch of 1..MaxCurves curves of the same length 1..MaxPoints
ApInit ==
    \E nc \in 1..MaxCurves, np \in 1..MaxPoints, m \in Modes :
      \E r \in [1..nc -> [1..np -> CurveValues]], q \in [1..nc -> [1..np -> CurveValues]] :
        /\ recalls = r
        /\ precisions = q
        /\ mode = m
        /\ ap_pc = "called"
        /\ ap_out = <<>>

\* lines 346-376
CallAveragePrecision ==
    /\ ap_pc = "called"
    /\ ap_out' = average_precision(recalls, precisions, mode)
    /\ ap_pc' = "returned"
    /\ UNCHANGED <<recalls, precisions, mode>>
    /\ UNCHANGED <<matcher_vars, metric_vars>>

\* ------------------------------------------------------------------------
\* add and compute_metric
\* ------------------------------------------------------------------------
\* line 60: the default iou_thr
self_iou_thr == <<25, 50>>

Labels == {0, 1}
Boxes == {"a", "b"}

\* pred_cur.overlaps for two boxes: a box overlaps itself fully and the other box by 0.30
BoxIoU(x, y) == IF x = y THEN 100 ELSE 30

NotDict == [isdict |-> FALSE]

Predictions ==
    UNION {{[isdict |-> TRUE, labels_3d |-> l, scores_3d |-> sc, bboxes_3d |-> b] :
               l \in [1..n -> Labels], sc \in [1..n -> Scores], b \in [1..n -> Boxes]} :
           n \in 0..MaxBoxes}

Groundtruths ==
    UNION {{[isdict |-> TRUE, gt_labels_3d |-> l, gt_bboxes_3d |-> b] :
               l \in [1..n -> Labels], b \in [1..n -> Boxes]} :
           n \in 0..MaxBoxes}

Min(a, b) == IF a < b THEN a ELSE b

\* the orders in which n pairs can be supplied
Orders(n) == {f \in [1..n -> 1..n] : \A a, b \in 1..n : a # b => f[a] # f[b]}

\* the elements of a set of integers in ascending order
RECURSIVE Ascending(_)
Ascending(S) ==
    IF S = {} THEN <<>>
    ELSE LET m == CHOOSE x \in S : \A y \in S : x <= y
         IN  <<m>> \o Ascending(S \ {m})

\* lines 91-96: the pairs of zip(predictions, groundtruths) from pair k on;
\* an element that is not a dict stops the loop with an AssertionError
RECURSIVE AddPairs(_, _, _)
AddPairs(stored, pairs, k) ==
    IF k > Len(pairs) THEN [results |-> stored, raised |-> "none"]
    ELSE IF ~pairs[k][1].isdict \/ ~pairs[k][2].isdict
         THEN [results |-> stored, raised |-> "AssertionError"]
         ELSE AddPairs(Append(stored, pairs[k]), pairs, k + 1)

\* lines 119-132 for one sample: its predictions of class c, in order, up to box k
RECURSIVE PickPreds(_, _, _)
PickPreds(p, c, k) ==
    IF k = 0 THEN <<>>
    ELSE IF p.labels_3d[k] = c
         THEN Append(PickPreds(p, c, k - 1), [bbox |-> p.bboxes_3d[k], score |-> p.scores_3d[k]])
         ELSE PickPreds(p, c, k - 1)

\* lines 135-145 for one sample: its ground-truth boxes of class c, in order, up to box k
RECURSIVE PickGts(_, _, _)
PickGts(g, c, k) ==
    IF k = 0 THEN <<>>
    ELSE IF g.gt_labels_3d[k] = c
         THEN Append(PickGts(g, c, k - 1), g.gt_bboxes_3d[k])
         ELSE PickGts(g, c, k - 1)

PredLabels(res) == UNION {{res[s][1].labels_3d[k] : k \in 1..Len(res[s][1].labels_3d)} :
                          s \in 1..Len(res)}

GtLabels(res) == UNION {{res[s][2].gt_labels_3d[k] : k \in 1..Len(res[s][2].gt_labels_3d)} :
                        s \in 1..Len(res)}

\* lines 115-132: the keys are the classes some prediction has.  A sample
\* without a prediction of the class has no key in the code and the empty
\* list here: _eval_map_recall_single skips both alike (line 259)
GroupPreds(res) ==
    [c \in PredLabels(res) |->
        SeqOf(LAMBDA s : PickPreds(res[s][1], c, Len(res[s][1].labels_3d)), Len(res))]

\* lines 128-131 and 135-145: the keys are the classes of the predictions
\* and of the ground truth.  A sample without a box of the class has the
\* empty list, which adds nothing to npos and no claim flag
GroupGts(res) ==
    [c \in PredLabels(res) \cup GtLabels(res) |->
        SeqOf(LAMBDA s : PickGts(res[s][2], c, Len(res[s][2].gt_labels_3d)), Len(res))]

\* lines 289-312 for the first n detections of the ranking
RECURSIVE MatchAll(_, _, _, _, _)
MatchAll(fr, thr, sids, rows, n) ==
    IF n = 0 THEN fr
    ELSE MatchDetection(MatchAll(fr, thr, sids, rows, n - 1), thr, n, sids[n], rows[n])

\* lines 263-265: the scores of the (box, score) pairs, per sample
ScoresOf(predmap) ==
    SeqOf(LAMBDA s : SeqOf(LAMBDA k : predmap[s][k].score, Len(predmap[s])), Len(predmap))

\* lines 223-326: _eval_map_recall_single on the maps of one class, with p
\* the permutation np.argsort returns
EvalSingle(predmap, gtmap, thr, p) ==
    LET counts == SeqOf(LAMBDA s : Len(gtmap[s]), Len(gtmap))
        scores == ScoresOf(predmap)
        ov == SeqOf(LAMBDA s :
                  SeqOf(LAMBDA k :
                      SeqOf(LAMBDA j : BoxIoU(predmap[s][k].bbox, gtmap[s][j]),
                            Len(gtmap[s])),
                      Len(predmap[s])),
                  Len(predmap))
        recs == BuildClassRecs(counts, thr)
        sids0 == FlatSampleIds(scores)
        rows0 == FlatIous(scores, recs, ov)
        sids == SeqOf(LAMBDA k : sids0[p[k]], Len(p))
        rows == SeqOf(LAMBDA k : rows0[p[k]], Len(p))
        fr == MatchAll(StartFrame(counts, thr, Len(sids)), thr, sids, rows, Len(sids))
    IN  Curves(fr.tp, fr.fp, thr, CountPos(counts))

ClassScores(predmap) == FlatConfidence(ScoresOf(predmap))

\* lines 207-221: per threshold and class of the ground truth, the curve of
\* the class, or zeros for a class without predictions
ClassCurve(rv, k, c) ==
    IF c \in DOMAIN rv THEN rv[c][k]
    ELSE [recall |-> <<Flt(0)>>, precision |-> <<Flt(0)>>, ap |-> Flt(0)]

\* lines 154-171: the mean AP and the mean of the final recalls, per threshold
Aggregate(rv, gtclasses, thr) ==
    LET cs == Ascending(gtclasses)
    IN  SeqOf(LAMBDA k :
                  [AP |-> FMean(SeqOf(LAMBDA x : ClassCurve(rv, k, cs[x]).ap, Len(cs))),
                   AR |-> FMean(SeqOf(LAMBDA x : LET rec == ClassCurve(rv, k, cs[x]).recall
                                                 IN  rec[Len(rec)],
                                      Len(cs)))],
              Len(thr))

MetricIdle ==
    /\ results = <<>>
    /\ last_call = [op |-> "none"]
    /\ m_pc = "idle"
    /\ call_no = 0
    /\ cm_results = <<>>
    /\ preds_per_class = <<>>
    /\ gts_per_class = <<>>
    /\ todo = {}
    /\ ret_values = <<>>
    /\ argsort_memo = <<>>
    /\ eval_results = <<>>
    /\ eval_again = <<>>

\* lines 91-96: add(predictions, groundtruths) with sequences of npred and
\* ngt elements; zip reads the first Min(npred, ngt) of each and no other
Add ==
    /\ m_pc = "idle"
    /\ \E npred, ngt \in 0..MaxBatch :
        /\ Len(results) + Min(npred, ngt) <= MaxResults
        /\ \E pairs \in [1..Min(npred, ngt) ->
                            (Predictions \cup {NotDict}) \X (Groundtruths \cup {NotDict})] :
             LET r == AddPairs(results, pairs, 1)
             IN  /\ results' = r.results
                 /\ last_call' = [op |-> "add", npred |-> npred, ngt |-> ngt,
                                  stored |-> Len(r.results) - Len(results),
                                  raised |-> r.raised]
    /\ UNCHANGED <<m_pc, call_no, cm_results, preds_per_class, gts_per_class, todo,
                   ret_values, argsort_memo, eval_results, eval_again>>
    /\ UNCHANGED <<matcher_vars, ap_vars>>

\* lines 111-145 and 202-203 of a call compute_metric(res)
StartCompute(res) ==
    /\ cm_results' = res
    /\ preds_per_class' = GroupPreds(res)
    /\ gts_per_class' = GroupGts(res)
    /\ todo' = PredLabels(res)
    /\ ret_values' = <<>>
    /\ call_no' = call_no + 1
    /\ m_pc' = "eval"
    /\ last_call' = [op |-> "compute_metric", raised |-> "none"]

\* compute_metric on the stored pairs; zip(*results) of no pair raises ValueError
ComputeMetric ==
    /\ m_pc = "idle"
    /\ IF results = <<>>
       THEN /\ last_call' = [op |-> "compute_metric", raised |-> "ValueError"]
            /\ m_pc' = "done"
            /\ UNCHANGED <<call_no, cm_results, preds_per_class, gts_per_class, todo,
                           ret_values>>
       ELSE StartCompute(results)
    /\ UNCHANGED <<results, argsort_memo, eval_results, eval_again>>
    /\ UNCHANGED <<matcher_vars, ap_vars>>

\* compute_metric on the same pairs supplied in another order
ComputeMetricPermuted ==
    /\ m_pc = "computed"
    /\ \E f \in Orders(Len(results)) :
           StartCompute(SeqOf(LAMBDA k : results[f[k]], Len(results)))
    /\ UNCHANGED <<results, argsort_memo, eval_results, eval_again>>
    /\ UNCHANGED <<matcher_vars, ap_vars>>

\* lines 203-206: the next class of the ground truth that has predictions;
\* np.argsort is a function of the score array
EvalClass ==
    /\ m_pc = "eval"
    /\ todo # {}
    /\ LET c == CHOOSE x \in todo : \A y \in todo : x <= y
           conf == ClassScores(preds_per_class[c])
       IN  \E p \in ArgsortDescending(conf) :
             /\ conf \in DOMAIN argsort_memo => p = argsort_memo[conf]
             /\ argsort_memo' = [x \in DOMAIN argsort_memo \cup {conf} |->
                                    IF x = conf THEN p ELSE argsort_memo[x]]
             /\ ret_values' = [x \in DOMAIN ret_values \cup {c} |->
                                  IF x = c
                                  THEN EvalSingle(preds_per_class[c], gts_per_class[c],
                                                  self_iou_thr, p)
                                  ELSE ret_values[x]]
             /\ todo' = todo \ {c}
    /\ UNCHANGED <<results, last_call, m_pc, call_no, cm_results, preds_per_class,
                   gts_per_class, eval_results, eval_again>>
    /\ UNCHANGED <<matcher_vars, ap_vars>>

\* lines 207-221 and 150-183
ReturnMetric ==
    /\ m_pc = "eval"
    /\ todo = {}
    /\ LET out == Aggregate(ret_values, DOMAIN gts_per_class, self_iou_thr)
       IN  IF call_no = 1
           THEN eval_results' = out /\ m_pc' = "computed" /\ UNCHANGED eval_again
           ELSE eval_again' = out /\ m_pc' = "done" /\ UNCHANGED eval_results
    /\ UNCHANGED <<results, last_call, call_no, cm_results, preds_per_class,
                   gts_per_class, todo, ret_values, argsort_memo>>
    /\ UNCHANGED <<matcher_vars, ap_vars>>

\* ------------------------------------------------------------------------
\* Specifications
\* ------------------------------------------------------------------------
vars == <<matcher_vars, ap_vars, metric_vars>>

MatcherIdle ==
    /\ gt = <<>> /\ pred = <<>> /\ overlaps = <<>> /\ iou_thr = <<>>
    /\ pc = "idle" /\ class_recs = <<>> /\ npos = 0 /\ sample_ids = <<>>
    /\ confidence = <<>> /\ ious = <<>> /\ sorted_ind = <<>> /\ tp_thr = <<>>
    /\ fp_thr = <<>> /\ i = 0 /\ jmax = 0 /\ ret = <<>> /\ single = <<>>

\* one call of _eval_map_recall_single
Init == MatcherInit /\ ApIdle /\ MetricIdle
Next == BuildRecs \/ Flatten \/ SortByConfidence \/ MatchStep \/ ComputeCurves
Spec == Init /\ [][Next]_vars

\* one call of average_precision
InitAP == MatcherIdle /\ ApInit /\ MetricIdle
NextAP == CallAveragePrecision
SpecAP == InitAP /\ [][NextAP]_vars

\* calls of add, then compute_metric, then compute_metric on a permutation
InitMetric == MatcherIdle /\ ApIdle /\ MetricIdle
NextMetric == Add \/ ComputeMetric \/ ComputeMetricPermuted \/ EvalClass \/ ReturnMetric
SpecMetric == InitMetric /\ [][NextMetric]_vars

\* ------------------------------------------------------------------------
\* Properties of average_precision
\* ------------------------------------------------------------------------
\* the precisions of curve c at the points whose recall is at least level t
PrecisionsFrom(c, t) ==
    {precisions[c][k] : k \in {k \in 1..Len(recalls[c]) : FLe(t, recalls[c][k])}}

\* the contribution of level t: the largest such precision, 0 if there is none
Contribution(c, t) ==
    IF PrecisionsFrom(c, t) = {} THEN Flt(0)
    ELSE CHOOSE v \in PrecisionsFrom(c, t) : \A w \in PrecisionsFrom(c, t) : FLe(w, v)

\* C8: in the 11-point mode the AP of each curve of a batch is the sum of
\* its 11 contributions divided by 11 once, whatever the size of the batch.
C8_ElevenPointMean ==
    (ap_pc = "returned" /\ mode = "11points") =>
        \A c \in 1..Len(recalls) :
            ap_out[c] = FDiv(FSum([k \in 1..11 |-> Contribution(c, RecallLevels[k])]),
                             Flt(11))

\* ------------------------------------------------------------------------
\* Properties of _eval_map_recall_single
\* ------------------------------------------------------------------------
Matching == pc \in {"match", "done"}

\* the number of detections the matching loop has decided
Processed == IF pc = "match" THEN i - 1 ELSE IF pc = "done" THEN Len(sample_ids) ELSE 0

ThrIdx == 1..Len(iou_thr)

\* the largest IoU of the detection at rank r with a box of its sample
RowMax(r) ==
    CHOOSE v \in {ious[r][j] : j \in 1..gt[sample_ids[r]]} :
        \A j \in 1..gt[sample_ids[r]] : ious[r][j] <= v

\* the detection's best match: the first box that reaches the largest IoU
BestBox(r) ==
    CHOOSE j \in 1..gt[sample_ids[r]] :
        /\ ious[r][j] = RowMax(r)
        /\ \A j2 \in 1..(j - 1) : ious[r][j2] < RowMax(r)

\* the true positives of threshold k, among the first r ranks, matched to box j of sample s
ClaimantsOf(k, s, j, r) ==
    {q \in 1..r : tp_thr[k][q] = 1 /\ sample_ids[q] = s /\ BestBox(q) = j}

CumTP(k, r) == Cardinality({q \in 1..r : tp_thr[k][q] = 1})

\* the detection at rank r overlaps its best match by more than threshold k
Overlapping(k, r) == gt[sample_ids[r]] > 0 /\ RowMax(r) > iou_thr[k]

\* the detection at rank r is rejected for threshold k because its best match is taken
Duplicate(k, r) ==
    /\ Overlapping(k, r)
    /\ ClaimantsOf(k, sample_ids[r], BestBox(r), r - 1) # {}

\* C1: for every threshold, each ground-truth box is the match of at most
\* one true positive, and the true positives among the first r ranks never
\* outnumber npos, the ground-truth boxes of the class.
C1_BoxClaimedAtMostOnce ==
    Matching =>
        /\ \A k \in ThrIdx : \A s \in 1..Len(gt) : \A j \in 1..gt[s] :
               Cardinality(ClaimantsOf(k, s, j, Processed)) <= 1
        /\ \A k \in ThrIdx : \A r \in 1..Processed : CumTP(k, r) <= npos

\* a finished call in which a second detection of an already claimed box was rejected
C1_Witness ==
    /\ pc = "done"
    /\ \E k \in ThrIdx : \E r \in 1..Processed : Duplicate(k, r) /\ fp_thr[k][r] = 1

\* C2: for every decided detection and threshold exactly one of the TP and
\* FP flags is set; it is TP iff its best IoU is strictly above the
\* threshold and its best match was not claimed by an earlier rank.  An IoU
\* equal to the threshold, and a sample without ground truth, give FP.
C2_ExactlyOneFlag ==
    Matching =>
        \A k \in ThrIdx : \A r \in 1..Processed :
            /\ tp_thr[k][r] \in {0, 1}
            /\ fp_thr[k][r] = 1 - tp_thr[k][r]
            /\ tp_thr[k][r] = 1 <=> (Overlapping(k, r) /\ ~Duplicate(k, r))

\* a finished call with a true positive, an IoU equal to the threshold and
\* a detection in a sample without ground truth
C2_Witness ==
    /\ pc = "done"
    /\ \E k \in ThrIdx : \E r \in 1..Processed :
           gt[sample_ids[r]] > 0 /\ RowMax(r) = iou_thr[k] /\ fp_thr[k][r] = 1
    /\ \E r \in 1..Processed : gt[sample_ids[r]] = 0 /\ fp_thr[1][r] = 1
    /\ \E k \in ThrIdx : \E r \in 1..Processed : tp_thr[k][r] = 1

\* C3: the ranking is in descending order of confidence and detections of
\* equal confidence keep the order of the flattened list.
C3_StableRanking ==
    Matching =>
        /\ \A a \in 1..Len(sorted_ind) - 1 :
               confidence[sorted_ind[a]] >= confidence[sorted_ind[a + 1]]
        /\ \A a, b \in 1..Len(sorted_ind) :
               (a < b /\ confidence[sorted_ind[a]] = confidence[sorted_ind[b]])
                   => sorted_ind[a] < sorted_ind[b]

\* C5: a class with a prediction and no ground-truth box (npos = 0) has,
\* for every threshold, AP = 0 and the recall curve [0.0].
C5_NoGroundTruthGivesZero ==
    (pc = "done" /\ npos = 0 /\ Len(sample_ids) >= 1) =>
        \A k \in ThrIdx : ret[k].ap = Flt(0) /\ ret[k].recall = <<Flt(0)>>

\* C9: in a call with several thresholds, the flags, the claim table and
\* the returned curve of threshold t are those of the call with the
\* threshold list [t].
C9_ThresholdsIndependent ==
    /\ Matching =>
          \A k \in ThrIdx :
              /\ tp_thr[k] = single[k].tp[1]
              /\ fp_thr[k] = single[k].fp[1]
              /\ \A s \in 1..Len(gt) : class_recs[s].det[k] = single[k].recs[s].det[1]
    /\ pc = "done" =>
          \A k \in ThrIdx :
              ret[k] = Curves(single[k].tp, single[k].fp, <<iou_thr[k]>>, npos)[1]

\* a finished call whose two thresholds both claimed a box and decided differently
C9_Witness ==
    /\ pc = "done"
    /\ Len(iou_thr) = 2
    /\ tp_thr[1] # tp_thr[2]
    /\ \E r \in 1..Processed : tp_thr[1][r] = 1
    /\ \E r \in 1..Processed : tp_thr[2][r] = 1

\* C10: for thresholds t1 < t2 the true positives among the first r ranks
\* under t2 never outnumber those under t1, and with npos > 0 the final
\* recall under t2 is at most the final recall under t1.
C10_MonotoneInThreshold ==
    \A a, b \in ThrIdx :
        iou_thr[a] < iou_thr[b] =>
            /\ Matching => \A r \in 1..Processed : CumTP(b, r) <= CumTP(a, r)
            /\ (pc = "done" /\ npos > 0 /\ Len(sample_ids) > 0) =>
                   FLe(ret[b].recall[Len(sample_ids)], ret[a].recall[Len(sample_ids)])

\* a finished call where a detection is a true positive under the higher
\* threshold only (its box was taken under the lower one) and the final recalls differ
C10_Witness ==
    /\ pc = "done"
    /\ npos > 0
    /\ \E a, b \in ThrIdx :
           /\ iou_thr[a] < iou_thr[b]
           /\ \E r \in 1..Processed : tp_thr[b][r] = 1 /\ tp_thr[a][r] = 0
           /\ FLt(ret[b].recall[Len(sample_ids)], ret[a].recall[Len(sample_ids)])

\* ------------------------------------------------------------------------
\* Properties of add and compute_metric
\* ------------------------------------------------------------------------
InUnitInterval(x) == IsFinite(x) /\ FLe(Flt(0), x) /\ FLe(x, Flt(1))

\* C4: every value of the mapping compute_metric returns (AP_<thr> and
\* AR_<thr>) is a finite number in [0, 1].
C4_ValuesInUnitInterval ==
    \A k \in DOMAIN eval_results :
        InUnitInterval(eval_results[k].AP) /\ InUnitInterval(eval_results[k].AR)

\* C6: compute_metric returns the same values for the same sample pairs
\* supplied in another order.
C6_OrderInvariant ==
    (m_pc = "done" /\ call_no = 2) => eval_again = eval_results

\* C7: add called with sequences of different lengths raises an error and
\* stores no pair of the call.
C7_MismatchedLengthsRejected ==
    (last_call.op = "add" /\ last_call.npred # last_call.ngt) =>
        (last_call.raised # "none" /\ last_call.stored = 0)

====
